---- MODULE Spec2Model ----
(***************************************************************************)
(* Murakami quote matcher: MurakamiMatcher (matching_fixed.py) and the     *)
(* Streamlit page that drives it (app.py).                                 *)
(*                                                                         *)
(* Text is a sequence of one-character strings.  Real numbers are fixed    *)
(* point integers in units of 1/Scale.  A pandas cell is a record          *)
(* [isna, str]: NaN is [isna |-> TRUE].  Python's None is <<>> and a       *)
(* present value v is <<v>>.                                               *)
(***************************************************************************)
EXTENDS Integers, Sequences, FiniteSets, TLC

(* ------------------------------ bounds --------------------------------- *)
\* rows of quotes.csv in the specifications of the page
MaxQuotes == 6
\* rows of quotes.csv in the specifications of match_quotes and of the sidebar
SmallQuotes == 3
\* rows of the tag column in the vocabulary specification
MaxRows == 3
\* largest target_size handed to _build_vocabulary in that specification
MaxTarget == 3
\* largest top_k handed to match_quotes in its specification
MaxTopK == 4
\* cards the page may hold in last_matches before "Load 3 more" is cut off
MaxShown == 5
\* entries of saved_quotes before "Save" is cut off
MaxSaved == 6
\* width of the sentence embedding (384 in the source)
SbertDim == 2
\* width of the topic slice (80 in the source)
TopicsSize == 2
\* width of the purpose slice (30 in the source)
PurposesSize == 1
\* width of a row of quote_triplet_encodings_fixed.npy
EncDim == 2
\* similarities tried by the scoring specification: -SimSpan .. SimSpan
SimSpan == 1500

(* --------------------------- program constants ------------------------- *)
\* one unit of the fixed point (1.0): three decimal digits
Scale == 10 * 10 * 10
ContextDim == 12
\* the width process_user_input forces: 506 = 384 + 80 + 30 + 12 in the source
VecDim == SbertDim + TopicsSize + PurposesSize + ContextDim

(* ------------------------------ helpers -------------------------------- *)
Min(a, b) == IF a <= b THEN a ELSE b
Max(a, b) == IF a >= b THEN a ELSE b
Range(s) == {s[i] : i \in DOMAIN s}
None == <<>>
Some(v) == <<v>>
\* a list or array held as its elements, each computed once
Array(s) == <<>> \o s

(* ------------------------------- text ---------------------------------- *)
Upper == {"A", "B"}
LowerOf == [c \in Upper |-> IF c = "A" THEN "a" ELSE "b"]
Letters == {"a", "b", "e", "i", "l", "m", "o", "q", "r", "s", "t", "u"} \cup Upper
Digits == {"0", "1", "2", "3", "4", "5", "6", "7", "8", "9"}
\* \w of Python's re on str
WordChars == Letters \cup Digits \cup {"_"}
\* \s
SpaceChars == {" ", "\t", "\n"}
\* the punctuation process_user_input keeps
KeptPunct == {"!", "?", ".", ",", ";"}

\* str.lower()
Lower(s) == Array([i \in DOMAIN s |-> IF s[i] \in Upper THEN LowerOf[s[i]] ELSE s[i]])

RECURSIVE LStrip(_)
LStrip(s) == IF s # <<>> /\ Head(s) \in SpaceChars THEN LStrip(Tail(s)) ELSE s

RECURSIVE RStrip(_)
RStrip(s) ==
  IF s # <<>> /\ s[Len(s)] \in SpaceChars THEN RStrip(SubSeq(s, 1, Len(s) - 1)) ELSE s

\* str.strip()
Strip(s) == RStrip(LStrip(s))

\* str.split(sep): always at least one piece, empty pieces kept
RECURSIVE SplitOn(_, _, _)
SplitOn(s, sep, cur) ==
  IF s = <<>> THEN <<cur>>
  ELSE IF Head(s) = sep THEN <<cur>> \o SplitOn(Tail(s), sep, <<>>)
  ELSE SplitOn(Tail(s), sep, Append(cur, Head(s)))

\* maximal runs of the characters of `keep`: re.findall(r'\b\w+\b', s) with
\* keep = WordChars, str.split() with keep = everything but whitespace
RECURSIVE Runs(_, _, _)
Runs(s, keep, cur) ==
  IF s = <<>> THEN (IF cur = <<>> THEN <<>> ELSE <<cur>>)
  ELSE IF Head(s) \in keep THEN Runs(Tail(s), keep, Append(cur, Head(s)))
  ELSE (IF cur = <<>> THEN <<>> ELSE <<cur>>) \o Runs(Tail(s), keep, <<>>)

\* re.sub(r'[^\w\s!?.,;]', '', s)
RECURSIVE DropOthers(_)
DropOthers(s) ==
  IF s = <<>> THEN <<>>
  ELSE IF Head(s) \in WordChars \cup SpaceChars \cup KeptPunct
       THEN <<Head(s)>> \o DropOthers(Tail(s))
       ELSE DropOthers(Tail(s))

(* --------------------------- pandas cells ------------------------------ *)
NaN == [isna |-> TRUE, str |-> <<>>]
Cell(s) == [isna |-> FALSE, str |-> s]

(* ------------------------------ state ---------------------------------- *)
VARIABLES
  quotes_df,        \* rows of quotes.csv: [Quote, Book, Topic_1_clean, Purpose_clean]
  book_vibes,       \* rows of book_vibes.csv without the name column
  hybrid_features,  \* hybrid_features.npy, one row per quote
  quote_encodings,  \* quote_triplet_encodings_fixed.npy, one row per quote
  topics_vocab,
  purposes_vocab,
  avg_book_vibe,
  argsort_ties,     \* how this build's np.argsort orders equal keys
  saved_quotes,     \* st.session_state.saved_quotes
  similar_to,       \* st.session_state.similar_to
  last_matches,     \* st.session_state.last_matches
  last_query,       \* st.session_state.last_query
  paging,           \* history: "clean" while last_matches is one search and its
                    \* "Load 3 more"s, "mixed" once another click came between
  raised,           \* what the last search or "Load 3 more" raised, "none" if nothing
  call              \* the direct call of a matcher method that a specification of
                    \* one method makes: its name, argument and return

matcher == <<quotes_df, book_vibes, hybrid_features, quote_encodings,
             topics_vocab, purposes_vocab, avg_book_vibe>>
session == <<saved_quotes, similar_to, last_matches, last_query>>
vars == <<quotes_df, book_vibes, hybrid_features, quote_encodings, topics_vocab,
          purposes_vocab, avg_book_vibe, argsort_ties, saved_quotes, similar_to,
          last_matches, last_query, paging, raised, call>>

(* ---------------------- MurakamiMatcher._build_vocabulary -------------- *)
\* self.quotes_df[column_name].dropna()
DropNa(column) == SelectSeq(column, LAMBDA c : ~c.isna)

\* [t.strip().lower() for t in str(terms).split(',')]
TermList(terms) ==
  LET pieces == SplitOn(terms, ",", <<>>)
  IN  [i \in DOMAIN pieces |-> Lower(Strip(pieces[i]))]

\* all_terms after the loop over the column
RECURSIVE AllTerms(_)
AllTerms(cells) ==
  IF cells = <<>> THEN <<>> ELSE TermList(Head(cells).str) \o AllTerms(Tail(cells))

\* the keys of Counter(all_terms), in the order they were first met
RECURSIVE FirstMet(_, _)
FirstMet(all_terms, seen) ==
  IF all_terms = <<>> THEN seen
  ELSE FirstMet(Tail(all_terms),
                IF Head(all_terms) \in Range(seen) THEN seen
                ELSE Append(seen, Head(all_terms)))

CountOf(all_terms, term) == Cardinality({i \in DOMAIN all_terms : all_terms[i] = term})

\* Counter.most_common(n): by count, largest first; equal counts keep the order
\* in which the terms were first met
RECURSIVE ByCount(_, _)
ByCount(keys, all_terms) ==
  IF keys = <<>> THEN <<>>
  ELSE LET best == CHOOSE i \in DOMAIN keys :
                     \A j \in DOMAIN keys :
                       \/ CountOf(all_terms, keys[i]) > CountOf(all_terms, keys[j])
                       \/ /\ CountOf(all_terms, keys[i]) = CountOf(all_terms, keys[j])
                          /\ i <= j
       IN  <<keys[best]>> \o
           ByCount([k \in 1..(Len(keys) - 1) |->
                      IF k < best THEN keys[k] ELSE keys[k + 1]], all_terms)

MostCommon(all_terms, n) ==
  LET ranked == ByCount(FirstMet(all_terms, <<>>), all_terms)
  IN  SubSeq(ranked, 1, Min(n, Len(ranked)))

Pad(vocab, target_size) ==
  IF Len(vocab) < target_size
  THEN vocab \o [i \in 1..(target_size - Len(vocab)) |-> <<>>]
  ELSE vocab

BuildVocabularyNoPad(column, target_size) ==
  MostCommon(AllTerms(DropNa(column)), target_size)

BuildVocabulary(column, target_size) ==
  Pad(MostCommon(AllTerms(DropNa(column)), target_size), target_size)

Column(df, name) == [i \in DOMAIN df |-> df[i][name]]

(* --------------------------- fixed-point numbers ------------------------ *)
\* a / b to the nearest integer, b > 0
RoundDiv(a, b) == (2 * a + b) \div (2 * b)

\* a / b to the nearest integer, halves to the even one (np.rint), b > 0
RoundHalfEven(a, b) ==
  LET q == a \div b
      r == a % b
  IN  IF 2 * r < b THEN q
      ELSE IF 2 * r > b THEN q + 1
      ELSE IF q % 2 = 0 THEN q ELSE q + 1

RECURSIVE SqrtBetween(_, _, _)
SqrtBetween(n, lo, hi) ==
  IF hi - lo <= 1 THEN lo
  ELSE LET mid == (lo + hi) \div 2
       IN  IF mid * mid <= n THEN SqrtBetween(n, mid, hi) ELSE SqrtBetween(n, lo, mid)

\* the integer part of the square root of n >= 0
ISqrt(n) == SqrtBetween(n, 0, Min(n, 46340) + 1)

RECURSIVE SumSeq(_)
SumSeq(s) == IF s = <<>> THEN 0 ELSE Head(s) + SumSeq(Tail(s))

\* sklearn.preprocessing.normalize(x, norm='l2'): a zero row is left as it is
Normalize(row) ==
  LET norm == ISqrt(SumSeq([i \in DOMAIN row |-> row[i] * row[i]]))
  IN  IF norm = 0 THEN row ELSE Array([i \in DOMAIN row |-> RoundDiv(row[i] * Scale, norm)])

Dot(u, v) == RoundDiv(SumSeq([i \in DOMAIN u |-> u[i] * v[i]]), Scale)

\* sklearn.metrics.pairwise.cosine_similarity([x], Y)[0]
\* (Y has at least one row, each as wide as x)
CosineSimilarity(x, Y) ==
  LET x_normalized == Normalize(x)
  IN  Array([r \in DOMAIN Y |-> Dot(x_normalized, Normalize(Y[r]))])

(* ------------------------------- numpy --------------------------------- *)
\* whether key a at index i sorts before key b at index j
Before(a, i, b, j, ties) ==
  \/ a < b
  \/ a = b /\ (IF ties = "stable" THEN i < j ELSE i > j)

\* np.argsort(a): the 0-based indices of a in ascending order of their keys.
\* The default kind is not stable: equal keys come out in the order the
\* build's sort leaves them, here lower index first ("stable", what the
\* insertion sort of short arrays gives) or higher index first ("reversed").
ArgSort(a, ties) ==
  LET n == Len(a)
      rank(i) == Cardinality({j \in 1..n : Before(a[j], j, a[i], i, ties)})
  IN  Array([p \in 1..n |-> (CHOOSE i \in 1..n : rank(i) = p - 1) - 1])

\* Python's s[start:stop] and s[start:] on a sequence, step 1
SliceBound(i, n) == IF i < 0 THEN Max(i + n, 0) ELSE Min(i, n)
PySlice(s, start, stop) ==
  LET lo == SliceBound(start, Len(s))
      hi == SliceBound(stop, Len(s))
  IN  IF lo >= hi THEN <<>> ELSE SubSeq(s, lo + 1, hi)
PySliceFrom(s, start) ==
  LET lo == SliceBound(start, Len(s))
  IN  IF lo >= Len(s) THEN <<>> ELSE SubSeq(s, lo + 1, Len(s))

\* s[::-1]
Reversed(s) == Array([i \in DOMAIN s |-> s[Len(s) + 1 - i]])

\* a[i] on an array of n rows: <<row>> of the 0-based row read, <<>> for IndexError
RowRead(n, i) ==
  IF 0 <= i /\ i < n THEN Some(i)
  ELSE IF -n <= i /\ i < 0 THEN Some(i + n)
  ELSE None

(* ------------------- MurakamiMatcher.process_user_input ----------------- *)
\* the position of a character in the encoder's alphabet
AlphabetSeq == <<" ", "a", "b", "e", "i", "l", "m", "o", "q", "r", "s", "t", "u",
                 "0", "1", "2", "3", "4", "5", "6", "7", "8", "9", "_", "!", "?",
                 ".", ",", ";", "\t", "\n">>
AlphabetSeqChars == Range(AlphabetSeq)
CharCode(c) == CHOOSE i \in DOMAIN AlphabetSeq : AlphabetSeq[i] = c

\* self.sbert.encode(text): the pretrained encoder is a black box; this stands
\* for it as a fixed function of the text, every component within [-1, 1]
SbertEncode(text) ==
  [k \in 1..SbertDim |->
     (((SumSeq([i \in DOMAIN text |-> CharCode(text[i]) * (i + k)]) + 3 * k) % 21) - 10)
       * (Scale \div 10)]

\* text = str(text).lower().strip(); text = re.sub(r'[^\w\s!?.,;]', '', text)
CleanText(text) == DropOthers(Strip(Lower(text)))

\* the bag-of-words slice over one vocabulary
BowVec(vocab, size, user_words) ==
  [i \in 1..size |->
     IF i <= Len(vocab) /\ vocab[i] # <<>> /\ vocab[i] \in user_words THEN Scale ELSE 0]

ContextVec(text, vibe) ==
  LET char_count == Len(text)
      word_count == Len(Runs(text, AlphabetSeqChars \ SpaceChars, <<>>))
  IN  [i \in 1..ContextDim |->
         CASE i = 1 -> Min(RoundDiv(char_count * Scale, 500), Scale)
           [] i = 2 -> Min(RoundDiv(word_count * Scale, 100), Scale)
           [] i = 3 -> IF char_count < 80 THEN Scale ELSE 0
           [] i = 4 -> IF 80 <= char_count /\ char_count <= 200 THEN Scale ELSE 0
           [] i >= 5 /\ i <= 11 -> IF Len(vibe) >= 7 THEN vibe[i - 4] ELSE 0
           [] i = 12 -> Scale \div 2
           [] OTHER -> 0]

\* combined[:506] or np.pad(combined, (0, 506 - len(combined)))
ForceWidth(combined, width) ==
  IF Len(combined) = width THEN combined
  ELSE IF Len(combined) > width THEN SubSeq(combined, 1, width)
  ELSE combined \o [i \in 1..(width - Len(combined)) |-> 0]

ProcessUserInput(user_text) ==
  LET text == CleanText(user_text)
      user_words == Range(Runs(text, WordChars, <<>>))
  IN  ForceWidth(SbertEncode(text)
                   \o BowVec(topics_vocab, TopicsSize, user_words)
                   \o BowVec(purposes_vocab, PurposesSize, user_words)
                   \o ContextVec(text, avg_book_vibe),
                 VecDim)

(* ------------------------ compatibility of a match ---------------------- *)
\* tenths of a percent: round(max(0, min(100, (similarity_score + 1) * 50)), 1)
CompatibilityUnclamped(similarity_score) ==
  RoundHalfEven((similarity_score + Scale) * 50 * 10, Scale)

Compatibility(similarity_score) ==
  RoundHalfEven(Max(0, Min(100 * Scale, (similarity_score + Scale) * 50)) * 10, Scale)

\* the same expression in the page's similar-quote search and its continuation
SimilarCompatibility(similarity_score) ==
  RoundHalfEven(Max(0, Min(100 * Scale, (similarity_score + Scale) * 50)) * 10, Scale)

(* ---------------------- MurakamiMatcher.match_quotes -------------------- *)
\* np.argsort(similarities)[-top_k-1:-1][::-1]
TopIndicesSkipLast(similarities, top_k) ==
  Reversed(PySlice(ArgSort(similarities, argsort_ties), -top_k - 1, -1))

\* np.argsort(similarities)[-top_k:][::-1]
TopIndices(similarities, top_k) ==
  Reversed(PySliceFrom(ArgSort(similarities, argsort_ties), -top_k))

Similarities(user_input) == CosineSimilarity(ProcessUserInput(user_input), hybrid_features)

MatchQuotes(user_input, top_k) ==
  LET similarities == Similarities(user_input)
      top_indices == TopIndices(similarities, top_k)
  IN  Array([p \in DOMAIN top_indices |->
         LET idx == top_indices[p]
             quote_data == quotes_df[idx + 1]
         IN  [quote |-> quote_data.Quote,
              book |-> quote_data.Book,
              compatibility |-> Compatibility(similarities[idx + 1]),
              index |-> idx,
              topic |-> quote_data.Topic_1_clean,
              purpose |-> quote_data.Purpose_clean]])

\* self.hybrid_features once match_quotes has returned: cosine_similarity
\* normalizes copies, the matrix is only read
HybridFeaturesNormalizedInPlace == [r \in DOMAIN hybrid_features |-> Normalize(hybrid_features[r])]

HybridFeaturesAfterMatch == hybrid_features

(* ------------------ app.py: the similar-quote search -------------------- *)
RECURSIVE NatToText(_)
NatToText(n) ==
  LET digit == <<"0", "1", "2", "3", "4", "5", "6", "7", "8", "9">>[(n % 10) + 1]
  IN  IF n < 10 THEN <<digit>> ELSE Append(NatToText(n \div 10), digit)

\* str(n)
IntToText(n) == IF n < 0 THEN <<"-">> \o NatToText(-n) ELSE NatToText(n)

\* f"similar to quote #{st.session_state.similar_to + 1}"
SimilarQuery(i) ==
  <<"s", "i", "m", "i", "l", "a", "r", " ", "t", "o", " ", "q", "u", "o", "t", "e",
    " ", "#">> \o IntToText(i + 1)

\* cosine_similarity([quote_encoding], matcher.quote_encodings)[0], row read
SimilarSimilarities(row) == CosineSimilarity(quote_encodings[row + 1], quote_encodings)

SimilarCards(similarities, top_indices) ==
  Array([p \in DOMAIN top_indices |->
     LET idx == top_indices[p]
         quote_data == quotes_df[idx + 1]
     IN  [quote |-> quote_data.Quote,
          book |-> quote_data.Book,
          compatibility |-> SimilarCompatibility(similarities[idx + 1]),
          score |-> similarities[idx + 1],
          index |-> idx,
          topic |-> quote_data.Topic_1_clean,
          purpose |-> quote_data.Purpose_clean]])

\* np.argsort(similarities)[-4:-1][::-1], the cards of a similar-quote search
FindSimilarMatches(row) ==
  LET similarities == SimilarSimilarities(row)
  IN  SimilarCards(similarities,
                   Reversed(PySlice(ArgSort(similarities, argsort_ties), -4, -1)))

\* np.argsort(similarities)[-7:-1][::-1][3:6], the cards "Load 3 more" adds
MoreSimilarMatches(row) ==
  LET similarities == SimilarSimilarities(row)
  IN  SimilarCards(similarities,
                   PySlice(Reversed(PySlice(ArgSort(similarities, argsort_ties), -7, -1)),
                           3, 6))

(* ------------------------ app.py: drawing the page ---------------------- *)
\* display_quote_card slices quote_data['topic'] and ['purpose'] when they are
\* truthy: NaN is truthy and cannot be sliced (TypeError)
CardDraws(card) == ~card.topic.isna /\ ~card.purpose.isna

\* the cards up to and including the i-th were drawn, so its buttons exist
DrawnUpTo(i) == \A j \in 1..i : CardDraws(last_matches[j])

\* st.session_state.saved_quotes[-5:], the saved quotes the sidebar lists
SidebarShown == PySliceFrom(saved_quotes, -5)

\* list.pop(i), 0-based
Pop(list, i) ==
  Array([k \in 1..(Len(list) - 1) |-> IF k <= i THEN list[k] ELSE list[k + 1]])

(* ------------------------------ the corpus ------------------------------ *)
QuoteKinds == {"A", "B", "C"}

KindRow(kind) ==
  CASE kind = "A" -> [Quote |-> "quote A", Book |-> "Norwegian Wood",
                      Topic_1_clean |-> Cell(<<"a", ",", " ", "B">>),
                      Purpose_clean |-> Cell(<<"a">>)]
    [] kind = "B" -> [Quote |-> "quote B", Book |-> "1Q84",
                      Topic_1_clean |-> Cell(<<"B">>),
                      Purpose_clean |-> Cell(<<" ", "b", ",", "a">>)]
    [] OTHER      -> [Quote |-> "quote C", Book |-> "Kafka on the Shore",
                      Topic_1_clean |-> NaN,
                      Purpose_clean |-> Cell(<<" ">>)]

\* a row of hybrid_features.npy for a quote of this kind
KindHybrid(kind) ==
  [i \in 1..VecDim |->
     CASE kind = "A" -> IF i = 1 THEN Scale ELSE 0
       [] kind = "B" -> IF i <= 2 THEN 7 * (Scale \div 10) ELSE 0
       [] OTHER      -> IF i = 1 THEN -Scale ELSE 0]

\* a row of quote_triplet_encodings_fixed.npy for a quote of this kind
KindEncoding(kind) ==
  [i \in 1..EncDim |->
     CASE kind = "A" -> IF i = 1 THEN Scale ELSE 0
       [] kind = "B" -> IF i <= 2 THEN 7 * (Scale \div 10) ELSE 0
       [] OTHER      -> 0]

Corpora(kinds, maxn) == UNION {[1..n -> kinds] : n \in 1..maxn}

\* book_vibes.csv without its first column: seven descriptors per book, or six
VibeTables ==
  { << <<Scale, 0, 2 * (Scale \div 10), 0, Scale, 0, 4 * (Scale \div 10)>>,
       <<0, Scale, 0, 0, Scale \div 2, 0, 0>> >>,
    << <<Scale, 0, 0, 0, 0, Scale>> >> }
SevenVibes == {t \in VibeTables : Len(t[1]) = 7}

\* self.book_vibes.iloc[:, 1:].mean().values
ColumnMeans(table) ==
  [c \in 1..Len(table[1]) |->
     RoundDiv(SumSeq([r \in DOMAIN table |-> table[r][c]]), Len(table))]

(* -------------------------------- Init ---------------------------------- *)
\* MurakamiMatcher.__init__ over the loaded tables
MatcherLoaded(df, vibes, hybrid, encodings) ==
  /\ quotes_df = df
  /\ book_vibes = vibes
  /\ hybrid_features = hybrid
  /\ quote_encodings = encodings
  /\ topics_vocab = BuildVocabulary(Column(df, "Topic_1_clean"), TopicsSize)
  /\ purposes_vocab = BuildVocabulary(Column(df, "Purpose_clean"), PurposesSize)
  /\ avg_book_vibe = ColumnMeans(vibes)

MatcherOver(corpus, vibes) ==
  MatcherLoaded([i \in DOMAIN corpus |-> KindRow(corpus[i])], vibes,
                [i \in DOMAIN corpus |-> KindHybrid(corpus[i])],
                [i \in DOMAIN corpus |-> KindEncoding(corpus[i])])

NoCall == [op |-> "none", arg |-> <<>>, ret |-> <<>>]

\* main(): the session state of a fresh session
SessionFresh ==
  /\ saved_quotes = <<>>
  /\ similar_to = None
  /\ last_matches = <<>>
  /\ last_query = <<>>
  /\ paging = "clean"
  /\ raised = "none"
  /\ call = NoCall

\* the corpora of the page's specifications
PageCorpora == Corpora({"A", "B"}, MaxQuotes)

Init ==
  /\ \E corpus \in PageCorpora, vibes \in SevenVibes : MatcherOver(corpus, vibes)
  /\ argsort_ties \in {"stable", "reversed"}
  /\ SessionFresh

(* ------------------------- app.py: the clicks --------------------------- *)
\* what the text area can hold when "Find Murakami Quotes" is clicked
PageTexts == {<<>>, <<" ", "A", " ", "b", "#">>}

Called(op, arg, ret) == [op |-> op, arg |-> arg, ret |-> ret]

\* "Find Murakami Quotes" with text and no similar_to: matcher.match_quotes(user_input, 3)
FindByText(user_input) ==
  /\ user_input # <<>>
  /\ similar_to = None
  /\ LET matches == MatchQuotes(user_input, 3)
     IN  /\ last_matches' = matches
         /\ last_query' = user_input
         /\ raised' = "none"
  /\ hybrid_features' = HybridFeaturesAfterMatch
  /\ paging' = "clean"
  /\ UNCHANGED <<quotes_df, book_vibes, quote_encodings, topics_vocab, purposes_vocab,
                 avg_book_vibe, argsort_ties, saved_quotes, similar_to, call>>

\* "Find Murakami Quotes" while similar_to is set: the similar-quote search.
\* An index numpy rejects raises IndexError out of the script run.
FindSimilar ==
  /\ similar_to # None
  /\ LET row == RowRead(Len(quote_encodings), similar_to[1])
     IN  IF row = None
         THEN /\ raised' = "IndexError"
              /\ UNCHANGED <<last_matches, last_query, paging>>
         ELSE LET matches == FindSimilarMatches(row[1])
              IN  /\ last_matches' = matches
                  /\ last_query' = SimilarQuery(similar_to[1])
                  /\ raised' = "none"
                  /\ paging' = "clean"
  /\ UNCHANGED <<matcher, argsort_ties, saved_quotes, similar_to, call>>

\* "Find Murakami Quotes" with neither text nor similar_to: st.warning only
FindWarns ==
  /\ similar_to = None
  /\ UNCHANGED vars

\* "More like this" on the i-th card: similar_to = quote_data['index'], rerun
MoreLikeThis(i) ==
  /\ i \in DOMAIN last_matches
  /\ DrawnUpTo(i)
  /\ similar_to' = Some(last_matches[i].index)
  /\ paging' = "mixed"
  /\ UNCHANGED <<matcher, argsort_ties, saved_quotes, last_matches, last_query, raised,
                 call>>

\* "Clear similar search"
ClearSimilar ==
  /\ similar_to # None
  /\ similar_to' = None
  /\ paging' = "mixed"
  /\ UNCHANGED <<matcher, argsort_ties, saved_quotes, last_matches, last_query, raised,
                 call>>

\* "Load 3 more quotes" while similar_to is set; the handler catches and
\* reports whatever the block raises
LoadMoreSimilar ==
  /\ last_matches # <<>>
  /\ DrawnUpTo(Len(last_matches))
  /\ Len(last_matches) < MaxShown
  /\ similar_to # None
  /\ LET row == RowRead(Len(quote_encodings), similar_to[1])
     IN  IF row = None
         THEN /\ raised' = "IndexError"
              /\ UNCHANGED last_matches
         ELSE LET new_matches == MoreSimilarMatches(row[1])
              IN  /\ last_matches' = last_matches \o new_matches
                  /\ raised' = "none"
  /\ UNCHANGED <<matcher, argsort_ties, saved_quotes, similar_to, last_query, paging,
                 call>>

\* "Load 3 more quotes" with no similar_to: match_quotes(last_query, 6)[3:6];
\* with fewer than 6 matches new_matches is never bound and the read of it
\* raises, which the handler catches and reports
LoadMoreByText ==
  /\ last_matches # <<>>
  /\ DrawnUpTo(Len(last_matches))
  /\ Len(last_matches) < MaxShown
  /\ similar_to = None
  /\ LET more_matches == MatchQuotes(last_query, 6)
     IN  IF Len(more_matches) >= 6
         THEN LET new_matches == PySlice(more_matches, 3, 6)
              IN  /\ last_matches' = last_matches \o new_matches
                  /\ raised' = "none"
         ELSE /\ raised' = "UnboundLocalError"
              /\ UNCHANGED last_matches
  /\ hybrid_features' = HybridFeaturesAfterMatch
  /\ UNCHANGED <<quotes_df, book_vibes, quote_encodings, topics_vocab, purposes_vocab,
                 avg_book_vibe, argsort_ties, saved_quotes, similar_to, last_query,
                 paging, call>>

\* "Save" on the i-th card
Save(i) ==
  /\ i \in DOMAIN last_matches
  /\ DrawnUpTo(i)
  /\ Len(saved_quotes) < MaxSaved
  /\ saved_quotes' = Append(saved_quotes, last_matches[i])
  /\ UNCHANGED <<matcher, argsort_ties, similar_to, last_matches, last_query, paging,
                 raised, call>>

\* "Remove" in the i-th expander of the sidebar (i counts from 0 over the
\* last five saved quotes): st.session_state.saved_quotes.pop(i), rerun
Remove(i) ==
  /\ i \in 0..(Len(SidebarShown) - 1)
  /\ saved_quotes' = Pop(saved_quotes, i)
  /\ UNCHANGED <<matcher, argsort_ties, similar_to, last_matches, last_query, paging,
                 raised, call>>

\* the page: searching and paging
Next ==
  \/ \E user_input \in PageTexts : FindByText(user_input)
  \/ FindSimilar
  \/ FindWarns
  \/ \E i \in 1..(MaxShown + 2) : MoreLikeThis(i)
  \/ ClearSimilar
  \/ LoadMoreSimilar
  \/ LoadMoreByText

Spec == Init /\ [][Next]_vars

(* ------------------- the page: the saved-quotes sidebar ----------------- *)
SavedText == <<"A", " ", "b", "#">>

InitSaved ==
  /\ \E corpus \in [1..SmallQuotes -> {"A", "B"}], vibes \in SevenVibes :
       MatcherOver(corpus, vibes)
  /\ argsort_ties \in {"stable", "reversed"}
  /\ SessionFresh

NextSaved ==
  \/ FindByText(SavedText)
  \/ \E i \in 1..3 : Save(i)
  \/ \E i \in 0..4 : Remove(i)

SpecSaved == InitSaved /\ [][NextSaved]_vars

(* ------- the similar-quote search as match_similar_to(quote_index) ------ *)
\* the quote indices handed in: in range, negative, and past the last row
IndexArgs == (-(MaxQuotes + 1))..(MaxQuotes + 1)

InitSimilarTo ==
  /\ \E corpus \in PageCorpora, vibes \in SevenVibes : MatcherOver(corpus, vibes)
  /\ argsort_ties \in {"stable", "reversed"}
  /\ saved_quotes = <<>>
  /\ similar_to \in {Some(i) : i \in IndexArgs}
  /\ last_matches = <<>>
  /\ last_query = <<>>
  /\ paging = "clean"
  /\ raised = "none"
  /\ call = NoCall

NextSimilarTo ==
  \/ FindSimilar
  \/ LoadMoreSimilar

SpecSimilarTo == InitSimilarTo /\ [][NextSimilarTo]_vars

(* ------------------------ match_quotes, called directly ----------------- *)
MatchTexts == {<<>>, <<" ", "\t">>, <<"a">>, <<" ", "A", " ", "b", "#", "!">>}

InitMatch ==
  /\ \E corpus \in Corpora(QuoteKinds, SmallQuotes), vibes \in VibeTables :
       MatcherOver(corpus, vibes)
  /\ argsort_ties \in {"stable", "reversed"}
  /\ SessionFresh

CallMatchQuotes(user_input, top_k) ==
  /\ call = NoCall
  /\ call' = Called("match_quotes", <<user_input, top_k>>, MatchQuotes(user_input, top_k))
  /\ hybrid_features' = HybridFeaturesAfterMatch
  /\ UNCHANGED <<quotes_df, book_vibes, quote_encodings, topics_vocab, purposes_vocab,
                 avg_book_vibe, argsort_ties, session, paging, raised>>

NextMatch == \E user_input \in MatchTexts, top_k \in 1..MaxTopK :
               CallMatchQuotes(user_input, top_k)

SpecMatch == InitMatch /\ [][NextMatch]_vars

(* ----------------------- the compatibility of a score ------------------- *)
InitCompat ==
  /\ \E vibes \in SevenVibes : MatcherOver(<<"A">>, vibes)
  /\ argsort_ties = "stable"
  /\ saved_quotes = <<>>
  /\ similar_to = None
  /\ last_matches = <<>>
  /\ last_query = <<>>
  /\ paging = "clean"
  /\ raised = "none"
  /\ \E similarity_score \in (-SimSpan)..SimSpan :
       call = Called("none", similarity_score, <<>>)

\* the compatibility match_quotes puts into a result for this score
ScoreMatch ==
  /\ call.op = "none"
  /\ call' = Called("match_quotes", call.arg, Compatibility(call.arg))
  /\ UNCHANGED <<matcher, argsort_ties, session, paging, raised>>

\* the compatibility the similar-quote search puts into a result for this score
ScoreSimilar ==
  /\ call.op = "none"
  /\ call' = Called("similar", call.arg, SimilarCompatibility(call.arg))
  /\ UNCHANGED <<matcher, argsort_ties, session, paging, raised>>

NextCompat == ScoreMatch \/ ScoreSimilar

SpecCompat == InitCompat /\ [][NextCompat]_vars

(* ------------------------ _build_vocabulary, called directly ------------ *)
\* what a tag cell read by pd.read_csv can hold: an empty field is NaN
TagCells ==
  {NaN, Cell(<<" ">>), Cell(<<"a">>), Cell(<<"B">>), Cell(<<"a", ",", " ", "B">>),
   Cell(<<"b", ",", ",", "a">>), Cell(<<" ", "A", " ">>)}

TagRow(topic) ==
  [Quote |-> "quote", Book |-> "book", Topic_1_clean |-> topic, Purpose_clean |-> NaN]

TagTables == UNION {[1..n -> {TagRow(c) : c \in TagCells}] : n \in 0..MaxRows}

InitVocab ==
  /\ \E df \in TagTables, vibes \in SevenVibes :
       MatcherLoaded(df, vibes, [i \in DOMAIN df |-> KindHybrid("A")],
                     [i \in DOMAIN df |-> KindEncoding("A")])
  /\ argsort_ties = "stable"
  /\ SessionFresh

CallBuildVocabulary(column_name, target_size) ==
  /\ call = NoCall
  /\ call' = Called("_build_vocabulary", <<column_name, target_size>>,
                    BuildVocabulary(Column(quotes_df, column_name), target_size))
  /\ UNCHANGED <<matcher, argsort_ties, session, paging, raised>>

NextVocab == \E column_name \in {"Topic_1_clean", "Purpose_clean"}, target_size \in 0..MaxTarget :
               CallBuildVocabulary(column_name, target_size)

SpecVocab == InitVocab /\ [][NextVocab]_vars

(* ------------------------------- claims --------------------------------- *)
NumQuotes == Len(quotes_df)
ValidIndex(i) == 0 <= i /\ i < NumQuotes
CardIndices(cards) == [p \in DOMAIN cards |-> cards[p].index]
NoRepeat(seq) == \A p, q \in DOMAIN seq : p # q => seq[p] # seq[q]

\* last_matches is the similar-quote search for similar_to and its "Load 3 more"s
ShowsSimilarTo(i) ==
  /\ paging = "clean"
  /\ similar_to = Some(i)
  /\ last_query = SimilarQuery(i)
  /\ last_matches # <<>>

\* C1 (Spec): the cards of a similar-quote search for a valid quote index i,
\* and the cards "Load 3 more" adds to them, never include quote i itself.
C1_SimilarExcludesQuery ==
  \A i \in 0..(NumQuotes - 1) :
    ShowsSimilarTo(i) => \A p \in DOMAIN last_matches : last_matches[p].index # i

\* C2 (SpecMatch): match_quotes returns its results by non-increasing
\* similarity; of rows with equal similarity the lower index is selected first
\* and stands earlier in the list.
C2_DescendingLowerIndexFirst ==
  call.op = "match_quotes" =>
    LET similarities == Similarities(call.arg[1])
        picked == CardIndices(call.ret)
    IN  /\ \A p, q \in DOMAIN picked :
             p < q =>
               \/ similarities[picked[p] + 1] > similarities[picked[q] + 1]
               \/ /\ similarities[picked[p] + 1] = similarities[picked[q] + 1]
                  /\ picked[p] < picked[q]
        /\ \A a, b \in 0..(NumQuotes - 1) :
             (a < b /\ similarities[a + 1] = similarities[b + 1] /\ b \in Range(picked))
               => a \in Range(picked)

\* C3 (SpecMatch): for every text, the empty and the whitespace-only one
\* included, and every top_k >= 1, match_quotes raises nothing and returns
\* min(top_k, n) results with pairwise distinct indices of corpus rows.
C3_MatchReturnsMinTopKDistinct ==
  call.op = "match_quotes" =>
    /\ Len(call.ret) = Min(call.arg[2], NumQuotes)
    /\ NoRepeat(CardIndices(call.ret))
    /\ \A p \in DOMAIN call.ret : ValidIndex(call.ret[p].index)

\* C3 witness: a blank text with top_k past the corpus size returned every quote.
C3_Witness ==
  /\ call.op = "match_quotes"
  /\ CleanText(call.arg[1]) = <<>>
  /\ call.arg[1] # <<>>
  /\ call.arg[2] > NumQuotes
  /\ Len(call.ret) = NumQuotes
  /\ NumQuotes >= 2

\* C4 (SpecCompat): the compatibility put into a result, in free-text and in
\* similar-quote mode, is clamp((similarity + 1) * 50, 0, 100) to the nearest
\* tenth, so within [0, 100]; 1 gives 100.0, 0 gives 50.0 and -1 gives 0.0.
C4_CompatibilityClampedRounded ==
  call.op \in {"match_quotes", "similar"} =>
    LET percent == (call.arg + Scale) * 50
        clamped == IF percent < 0 THEN 0
                   ELSE IF percent > 100 * Scale THEN 100 * Scale ELSE percent
        off == call.ret * Scale - clamped * 10
    IN  /\ 0 <= call.ret /\ call.ret <= 1000
        /\ 2 * off <= Scale /\ 2 * off >= -Scale
        /\ call.arg = Scale => call.ret = 1000
        /\ call.arg = 0 => call.ret = 500
        /\ call.arg = -Scale => call.ret = 0

\* C4 witness: a similarity above 1 scored in similar-quote mode came out as 100.0.
C4_Witness == call.op = "similar" /\ call.arg > Scale /\ call.ret = 1000

\* the distinct terms the column yields: every piece, trimmed and lowercased
TermsOf(column) == Range(AllTerms(DropNa(column)))

\* C5 (SpecVocab): _build_vocabulary returns a list of exactly target_size
\* entries; with d < target_size distinct terms the first d entries are those
\* terms and the rest are empty-string placeholders.
C5_VocabularyLengthAndPadding ==
  call.op = "_build_vocabulary" =>
    LET terms == TermsOf(Column(quotes_df, call.arg[1]))
        d == Cardinality(terms)
        target_size == call.arg[2]
    IN  /\ Len(call.ret) = target_size
        /\ d < target_size =>
             /\ {call.ret[i] : i \in 1..d} = terms
             /\ \A i \in (d + 1)..target_size : call.ret[i] = <<>>

\* C5 witness: a column with some terms, but fewer than target_size, was padded.
C5_Witness ==
  /\ call.op = "_build_vocabulary"
  /\ Cardinality(TermsOf(Column(quotes_df, call.arg[1]))) \in 1..(call.arg[2] - 1)
  /\ Len(quotes_df) >= 2

IsBlank(cell) == cell.isna \/ Strip(cell.str) = <<>>

\* C7 (SpecVocab): quotes with a missing or blank tag contribute nothing: the
\* vocabulary equals that of the column without them, and the empty string
\* takes no slot ahead of a term.
C7_BlankTagsContributeNothing ==
  call.op = "_build_vocabulary" =>
    LET column == Column(quotes_df, call.arg[1])
    IN  /\ call.ret = BuildVocabulary(SelectSeq(column, LAMBDA c : ~IsBlank(c)),
                                      call.arg[2])
        /\ \A i, j \in DOMAIN call.ret :
             (i < j /\ call.ret[i] = <<>>) => call.ret[j] = <<>>

\* C8 (Spec): after a search and any number of "Load 3 more" clicks,
\* last_matches holds no quote index twice.
C8_NoQuoteShownTwice == paging = "clean" => NoRepeat(CardIndices(last_matches))

\* the cards of a text search and its "Load 3 more" are what match_quotes
\* answers for that text now
RepeatCallAgrees ==
  (paging = "clean" /\ similar_to = None /\ last_matches # <<>>) =>
    LET again3 == MatchQuotes(last_query, 3)
        again6 == MatchQuotes(last_query, 6)
    IN  \A p \in DOMAIN last_matches :
          last_matches[p] = IF p <= 3 THEN again3[p] ELSE again6[4 + ((p - 4) % 3)]

\* C9 (Spec): no click changes the quote table, the matrices, the vocabularies
\* or the average book vibe, so match_quotes keeps answering a text alike.
C9_MatcherReadOnly == [][matcher' = matcher]_vars /\ []RepeatCallAgrees

\* C9 witness: a text search and its "Load 3 more" have run over a corpus whose
\* rows are not all of unit length, and its six cards stand on the page.
C9_Witness ==
  /\ paging = "clean"
  /\ similar_to = None
  /\ Len(last_matches) = 6
  /\ \E r \in DOMAIN hybrid_features : Normalize(hybrid_features[r]) # hybrid_features[r]

\* C10 (SpecSaved): "Remove" on the i-th saved quote the sidebar lists removes
\* that very entry of saved_quotes and keeps the others in their order.
C10_RemoveDropsTheListedQuote ==
  [][ \A i \in 0..4 :
        Remove(i) =>
          saved_quotes' = Pop(saved_quotes, Len(saved_quotes) - Len(SidebarShown) + i) ]_vars
====
